---- MODULE Spec2Model ----
(***************************************************************************)
(* Model of junos-eol-mcp: the FRU extractor, the sw-eol-table fragment    *)
(* extractor, the identifier-list extraction and the cross-reference       *)
(* matcher of junos_eol_mcp.py, and the script test_analyse_inventory.py.  *)
(*                                                                         *)
(* A text is a sequence of one-character strings.  In a page text the      *)
(* literals of the sw-eol-table pattern ("selector", "sw-eol-table",       *)
(* "properties", "htmlContent", each with its double quotes) are single    *)
(* elements of the sequence.                                               *)
(***************************************************************************)
EXTENDS Integers, Sequences, FiniteSets, TLC

VARIABLES
    pc,                         \* position of the run in the program
    hw_inventory,               \* the inventory text given to the run
    eol_url,                    \* the URL given to the run
    lines,                      \* hw_inventory.split('\n')
    li,                         \* number of lines the FRU loop has consumed
    fru_list,                   \* the FRU tokens collected so far
    eol_page_content,           \* the downloaded page text
    tables_eol,                 \* what extract_sw_eol_tables(...) evaluated to
    fi,                         \* number of fragments the matcher has finished
    ti,                         \* number of FRU tokens consumed in this fragment
    eol_components_formatted,   \* the identifier list of the current fragment
    eol_list,                   \* the count map: [keys: insertion order, cnt: counts]
    ran,                        \* the stages executed so far, in order; a failed
                                \* download is recorded by its cause
    result,                     \* what the run handed to its caller
    name,                       \* the tool call_tool was called for
    arguments,                  \* the arguments of the call
    SAMPLE_INVENTORY,           \* the module-level inventory of the server
    dev,                        \* the device connection of get_show_chassis
    requests,                   \* the downloads attempted so far: URL and timeout
    earlier                     \* the runs that ended before this one

\* what lives outside a run of the analysis
shell == <<name, arguments, SAMPLE_INVENTORY, dev, requests, earlier>>

vars == <<pc, hw_inventory, eol_url, lines, li, fru_list, eol_page_content,
          tables_eol, fi, ti, eol_components_formatted, eol_list, ran, result,
          name, arguments, SAMPLE_INVENTORY, dev, requests, earlier>>

----------------------------------------------------------------------------
(* Characters and the str methods the code uses. *)

Whitespace == {" ", "\t", "\r", "\n"}
\* the character class [A-Z0-9]
UpperDigit ==
    {"A", "B", "C", "D", "E", "F", "G", "H", "I", "J", "K", "L", "M", "N", "O", "P",
     "Q", "R", "S", "T", "U", "V", "W", "X", "Y", "Z",
     "0", "1", "2", "3", "4", "5", "6", "7", "8", "9"}

Min(S) == CHOOSE x \in S : \A y \in S : x <= y
Max(S) == CHOOSE x \in S : \A y \in S : x >= y

\* s[from:] as a sequence
Tail_(s, from) == SubSeq(s, from, Len(s))

\* str.split(sep) for a one-character separator: always Count(sep) + 1 pieces
RECURSIVE Split(_, _)
Split(s, sep) ==
    LET hits == {i \in 1..Len(s) : s[i] = sep}
    IN IF hits = {} THEN <<s>>
       ELSE <<SubSeq(s, 1, Min(hits) - 1)>> \o Split(Tail_(s, Min(hits) + 1), sep)

\* str.strip(): leading and trailing whitespace removed
Strip(s) ==
    LET solid == {i \in 1..Len(s) : s[i] \notin Whitespace}
    IN IF solid = {} THEN <<>> ELSE SubSeq(s, Min(solid), Max(solid))

\* str.split() without argument: the maximal runs of non-whitespace
RECURSIVE Fields(_)
Fields(s) ==
    LET solid == {i \in 1..Len(s) : s[i] \notin Whitespace}
    IN IF solid = {} THEN <<>>
       ELSE LET a == Min(solid)
                gaps == {i \in a..Len(s) : s[i] \in Whitespace}
                b == IF gaps = {} THEN Len(s) ELSE Min(gaps) - 1
            IN <<SubSeq(s, a, b)>> \o Fields(Tail_(s, b + 1))

\* x in list
In(x, list) == \E k \in 1..Len(list) : list[k] = x

----------------------------------------------------------------------------
(* FRU extractor: analyse_inventory_internal, lines 133-156. *)

\* re.match(r'^[A-Z0-9]+-[A-Z0-9-]+$', w) for a field w holding no newline: the
\* greedy first class takes the whole leading run, then one hyphen, then the tail
FruPatternUnanchored(w) ==
    LET stop == {i \in 1..Len(w) : w[i] \notin UpperDigit}
        run == IF stop = {} THEN Len(w) ELSE Min(stop) - 1
    IN /\ run >= 1
       /\ run + 2 <= Len(w)
       /\ w[run + 1] = "-"
       /\ w[run + 2] \in UpperDigit \cup {"-"}

FruPatternMatch(w) ==
    LET stop == {i \in 1..Len(w) : w[i] \notin UpperDigit}
        run == IF stop = {} THEN Len(w) ELSE Min(stop) - 1
    IN /\ run >= 1
       /\ run + 2 <= Len(w)
       /\ w[run + 1] = "-"
       /\ \A k \in (run + 2)..Len(w) : w[k] \in UpperDigit \cup {"-"}

\* one pass of the body of `for line in lines`
FruLoopBody(line, acc) ==
    IF Strip(line) = <<>> THEN acc
    ELSE LET parts == Fields(line)
         IN IF parts # <<>> /\ FruPatternMatch(parts[Len(parts)])
            THEN Append(acc, parts[Len(parts)])
            ELSE acc

----------------------------------------------------------------------------
(* EOL fragment extractor: extract_sw_eol_tables.  The pattern is, with      *)
(* optional whitespace between the literals: an opening brace, "selector",  *)
(* a colon, "sw-eol-table", a comma, "properties", a colon, an opening      *)
(* brace, any run of characters other than a closing brace, "htmlContent",  *)
(* a colon, a single quote, the captured run of characters other than a     *)
(* single quote, a single quote, and two closing braces.                    *)

HeadLits == <<"{", "\"selector\"", ":", "\"sw-eol-table\"", ",", "\"properties\"", ":", "{">>
KeyLits  == <<"\"htmlContent\"", ":", "'">>
CloseLits == <<"}", "}">>

\* optional whitespace: the first position at or after p that holds no whitespace (Len + 1 at the end)
SkipWs(text, p) ==
    LET solid == {i \in p..Len(text) : text[i] \notin Whitespace}
    IN IF solid = {} THEN Len(text) + 1 ELSE Min(solid)

\* the literals lits, the first at position p exactly, each later one after optional whitespace;
\* the position of the last literal, or 0 when the text does not continue so
RECURSIVE MatchLits(_, _, _)
MatchLits(text, p, lits) ==
    IF p > Len(text) \/ text[p] # lits[1] THEN 0
    ELSE IF Len(lits) = 1 THEN p
    ELSE MatchLits(text, SkipWs(text, p + 1), Tail(lits))

\* from the "htmlContent" literal at h to the final brace: [quote1, quote2, end],
\* or <<>> when the text does not continue so.  The captured run stops at the next quote.
KeyMatch(text, h) ==
    LET q1 == MatchLits(text, h, KeyLits)
        quotes == {i \in (q1 + 1)..Len(text) : text[i] = "'"}
    IN IF q1 = 0 \/ quotes = {} THEN <<>>
       ELSE LET q2 == Min(quotes)
                e == MatchLits(text, SkipWs(text, q2 + 1), CloseLits)
            IN IF e = 0 THEN <<>> ELSE <<q1, q2, e>>

\* the match object of the pattern at position s, or <<>>: the run before it is greedy, so the
\* "htmlContent" taken is the last one, before any '}', from which the rest matches
MatchAt(text, s) ==
    LET b == MatchLits(text, s, HeadLits)
        braces == {i \in (b + 1)..Len(text) : text[i] = "}"}
        reach == IF braces = {} THEN Len(text) ELSE Min(braces) - 1
        keys == {h \in (b + 1)..reach : KeyMatch(text, h) # <<>>}
    IN IF b = 0 \/ keys = {} THEN <<>>
       ELSE LET k == KeyMatch(text, Max(keys))
            IN <<[start |-> s, end |-> k[3], group1 |-> SubSeq(text, k[1] + 1, k[2] - 1)]>>

\* where the scan resumes after a match
NextScanOverlapping(m) == m.start + 1

NextScan(m) == m.end + 1

\* re.finditer(pattern, content, re.DOTALL): leftmost matches, scanning on from the
\* end of each match
RECURSIVE FindIterFrom(_, _)
FindIterFrom(text, p) ==
    LET starts == {s \in p..Len(text) : MatchAt(text, s) # <<>>}
    IN IF starts = {} THEN <<>>
       ELSE LET m == MatchAt(text, Min(starts))[1]
            IN <<m>> \o FindIterFrom(text, NextScan(m))

FindIter(text) == FindIterFrom(text, 1)

\* the component built from one match (lines 47-63)
Component(m) ==
    [selector |-> "sw-eol-table", properties |-> [htmlContent |-> m.group1]]

extract_sw_eol_tables(content) ==
    LET ms == FindIter(content) IN [k \in 1..Len(ms) |-> Component(ms[k])]

----------------------------------------------------------------------------
(* Identifier-list extraction: analyse_inventory_internal, lines 197-200. *)

\* item.strip().split('<')[0]
FormatItem(item) == Split(Strip(item), "<")[1]

\* an identifier list without its empty entries
NotEmpty(e) == e # <<>>
IdentifierListNoEmpty(htmlContent) ==
    LET raw == Split(htmlContent, ",")
    IN SelectSeq([k \in 1..Len(raw) |-> FormatItem(raw[k])], NotEmpty)

\* lines 197-200
IdentifierList(htmlContent) ==
    LET raw == Split(htmlContent, ",")
    IN [k \in 1..Len(raw) |-> FormatItem(raw[k])]

----------------------------------------------------------------------------
(* Inputs. *)

\* bounds of the input spaces
MaxInvLen == 6
MaxInvLines == 2
MaxPageChunks == 2
MaxHtmlLen == 5
MaxPieces == 3

\* every text of at most n characters over the alphabet
Texts(alphabet, n) == UNION {[1..k -> alphabet] : k \in 0..n}

\* str.join
RECURSIVE Join(_, _)
Join(parts, sep) ==
    IF parts = <<>> THEN <<>>
    ELSE IF Len(parts) = 1 THEN parts[1]
    ELSE parts[1] \o sep \o Join(Tail(parts), sep)

\* every sequence of at most n elements of S
SeqsUpTo(S, n) == UNION {[1..k -> S] : k \in 0..n}

\* inventory texts of the FRU extractor taken alone
InvAlphabet == {"A", "-", "a", " ", "\n"}

\* inventory lines as a router prints them (test_get_show_chassis.py, lines 13, 14, 18)
\* and a blank line
InvLines ==
    { <<"M", "i", "d", "p", "l", "a", "n", "e", " ", " ", " ", " ", " ", " ", " ", " ", " ", "R", "E", "V", " ", "5", "7", " ", " ", " ", "7", "5", "0", "-", "0", "4", "4", "2", "1", "9", " ", " ", " ", "I", "P", "M", "V", "M", "1", "0", "F", "R", "A", " ", " ", " ", " ", " ", " ", " ", " ", "C", "H", "A", "S", "-", "M", "X", "1", "0", "4", "-", "S">>,
      <<"P", "E", "M", " ", "0", " ", " ", " ", " ", " ", " ", " ", " ", " ", " ", " ", " ", "R", "E", "V", " ", "0", "6", " ", " ", " ", "7", "4", "0", "-", "0", "4", "5", "9", "3", "2", " ", " ", " ", "I", "P", "U", "P", "A", "M", "J", "K", "A", "B", " ", " ", " ", " ", " ", " ", " ", " ", "P", "W", "R", "-", "M", "X", "1", "0", "4", "-", "D", "C", "-", "S">>,
      <<"A", "F", "E", "B", " ", "0", " ", " ", " ", " ", " ", " ", " ", " ", " ", " ", " ", " ", " ", " ", " ", " ", " ", " ", " ", " ", "B", "U", "I", "L", "T", "I", "N">>,
      <<" ", " ">> }

Inventories == {Join(ls, <<"\n">>) : ls \in SeqsUpTo(InvLines, MaxInvLines)}

DefaultUrl == "https://support.juniper.net/support/eol/product/m_series/"
Urls == {DefaultUrl, "https://support.juniper.net/support/eol/product/mx_series/"}

\* what makes the download raise: a transport error, the timeout, a non-success status
FetchFailures == {"ConnectionError", "Timeout", "HTTPError"}

\* a page component holding content c
Fragment(c) == HeadLits \o KeyLits \o c \o <<"'">> \o CloseLits

Content1 == <<"C", "H", "A", "S", "-", "M", "X", "1", "0", "4", "-", "S", "<", "a", ">", "f", "o", "o", "<", "/", "a", ">", ",", " ", "P", "W", "R", "-", "M", "X", "1", "0", "4", "-", "D", "C", "-", "S", "<", "b", "r", ">">>
Content2 == <<"P", "W", "R", "-", "M", "X", "1", "0", "4", "-", "D", "C", "-", "S", ",", "P", "W", "R", "-", "M", "X", "1", "0", "4", "-", "D", "C", "-", "S", ",", "\n", "R", "E", "-", "S", "-", "M", "X", "1", "0", "4", "-", "S", "-", "R", ",">>
Content3 == <<"M", "I", "C", "-", "3", "D", "-", "2", "X", "G", "E", "-", "X", "F", "P", " ", "<", "b", "r", ">", ",", " ", "F", "A", "N", "T", "R", "A", "Y", "-", "M", "X", "1", "0", "4", "-", "S">>
\* markup outside any component, and a component whose quote never closes
Markup == <<"<", "p", ">", "C", "H", "A", "S", "-", "M", "X", "1", "0", "4", "-", "S", "<", "/", "p", ">">>
Unterminated == HeadLits \o KeyLits \o <<"F", "A", "N", "T", "R", "A", "Y", "-", "M", "X", "1", "0", "4", "-", "S">>

PageChunks ==
    {Fragment(Content1), Fragment(Content2), Fragment(Content3), Markup, Unterminated}
Pages == {Join(cs, <<"\n">>) : cs \in SeqsUpTo(PageChunks, MaxPageChunks)}

\* the inventory the script analyses (test_analyse_inventory.py, lines 172-189)
SAMPLE_HW_INVENTORY ==
    <<"u", "s", "e", "r", "@", "R", "O", "U", "T", "E", "R", "R", "E", "C", "2", "-", "r", "e", "0", ">", " ", "s", "h", "o", "w", " ", "c", "h", "a", "s", "s", "i", "s", " ", "h", "a", "r", "d", "w", "a", "r", "e", " ", "c", "l", "e", "i", "-", "m", "o", "d", "e", "l", "s", "\n">> \o
    <<" ", " ", " ", " ", "H", "a", "r", "d", "w", "a", "r", "e", " ", "i", "n", "v", "e", "n", "t", "o", "r", "y", ":", "\n">> \o
    <<" ", " ", " ", " ", "I", "t", "e", "m", " ", " ", " ", " ", " ", " ", " ", " ", " ", " ", " ", " ", " ", "V", "e", "r", "s", "i", "o", "n", " ", " ", "P", "a", "r", "t", " ", "n", "u", "m", "b", "e", "r", " ", " ", "C", "L", "E", "I", " ", "c", "o", "d", "e", " ", " ", " ", " ", " ", " ", " ", " ", " ", "F", "R", "U", " ", "m", "o", "d", "e", "l", " ", "n", "u", "m", "b", "e", "r", "\n">> \o
    <<" ", " ", " ", " ", "M", "i", "d", "p", "l", "a", "n", "e", " ", " ", " ", " ", " ", " ", " ", " ", " ", "R", "E", "V", " ", "5", "7", " ", " ", " ", "7", "7", "7", "-", "7", "7", "7", "7", "7", "7", " ", " ", " ", "X", "X", "X", "X", "X", "X", "X", "X", "X", "X", " ", " ", " ", " ", " ", " ", " ", " ", "C", "H", "A", "S", "-", "M", "X", "1", "0", "4", "-", "S", "\n">> \o
    <<" ", " ", " ", " ", "P", "E", "M", " ", "0", " ", " ", " ", " ", " ", " ", " ", " ", " ", " ", " ", " ", "R", "E", "V", " ", "0", "6", " ", " ", " ", "7", "7", "7", "-", "7", "7", "7", "7", "7", "7", " ", " ", " ", "X", "X", "X", "X", "X", "X", "X", "X", "X", "X", " ", " ", " ", " ", " ", " ", " ", " ", "P", "W", "R", "-", "M", "X", "1", "0", "4", "-", "D", "C", "-", "S", "\n">> \o
    <<" ", " ", " ", " ", "P", "E", "M", " ", "1", " ", " ", " ", " ", " ", " ", " ", " ", " ", " ", " ", " ", "R", "E", "V", " ", "0", "6", " ", " ", " ", "7", "7", "7", "-", "7", "7", "7", "7", "7", "7", " ", " ", " ", "X", "X", "X", "X", "X", "X", "X", "X", "X", "X", " ", " ", " ", " ", " ", " ", " ", " ", "P", "W", "R", "-", "M", "X", "1", "0", "4", "-", "D", "C", "-", "S", "\n">> \o
    <<" ", " ", " ", " ", "R", "o", "u", "t", "i", "n", "g", " ", "E", "n", "g", "i", "n", "e", " ", "0", " ", "R", "E", "V", " ", "0", "5", " ", " ", " ", "7", "7", "7", "-", "7", "7", "7", "7", "7", "7", " ", " ", " ", "X", "X", "X", "X", "X", "X", "X", "X", "X", "X", " ", " ", " ", " ", " ", " ", " ", " ", "R", "E", "-", "S", "-", "M", "X", "1", "0", "4", "-", "S", "\n">> \o
    <<" ", " ", " ", " ", "R", "o", "u", "t", "i", "n", "g", " ", "E", "n", "g", "i", "n", "e", " ", "1", " ", "R", "E", "V", " ", "0", "5", " ", " ", " ", "7", "7", "7", "-", "7", "7", "7", "7", "7", "7", " ", " ", " ", "X", "X", "X", "X", "X", "X", "X", "X", "X", "X", " ", " ", " ", " ", " ", " ", " ", " ", "R", "E", "-", "S", "-", "M", "X", "1", "0", "4", "-", "S", "\n">> \o
    <<" ", " ", " ", " ", "A", "F", "E", "B", " ", "0", " ", " ", " ", " ", " ", " ", " ", " ", " ", " ", " ", " ", " ", " ", " ", " ", " ", " ", " ", " ", "B", "U", "I", "L", "T", "I", "N", "\n">> \o
    <<" ", " ", " ", " ", "F", "P", "C", " ", "0", " ", " ", " ", " ", " ", " ", " ", " ", " ", " ", " ", " ", " ", " ", " ", " ", " ", " ", " ", " ", " ", "B", "U", "I", "L", "T", "I", "N", "\n">> \o
    <<" ", " ", " ", " ", " ", " ", "M", "I", "C", " ", "0", " ", " ", " ", " ", " ", " ", " ", " ", " ", " ", "R", "E", "V", " ", "2", "0", " ", " ", " ", "7", "7", "7", "-", "7", "7", "7", "7", "7", "7", " ", " ", " ", "X", "X", "X", "X", "X", "X", "X", "X", "X", "X", " ", " ", " ", " ", " ", " ", " ", " ", "M", "I", "C", "-", "3", "D", "-", "2", "0", "G", "E", "-", "S", "F", "P", "-", "E", "\n">> \o
    <<" ", " ", " ", " ", " ", " ", "M", "I", "C", " ", "1", " ", " ", " ", " ", " ", " ", " ", " ", " ", " ", "R", "E", "V", " ", "3", "0", " ", " ", " ", "7", "7", "7", "-", "7", "7", "7", "7", "7", "7", " ", " ", " ", "X", "X", "X", "X", "X", "X", "X", "X", "X", "X", " ", " ", " ", " ", " ", " ", " ", " ", "M", "I", "C", "-", "3", "D", "-", "2", "X", "G", "E", "-", "X", "F", "P", "\n">> \o
    <<" ", " ", " ", " ", "F", "P", "C", " ", "1", " ", " ", " ", " ", " ", " ", " ", " ", " ", " ", " ", " ", " ", " ", " ", " ", " ", " ", " ", " ", " ", "B", "U", "I", "L", "T", "I", "N", "\n">> \o
    <<" ", " ", " ", " ", " ", " ", "M", "I", "C", " ", "0", " ", " ", " ", " ", " ", " ", " ", " ", " ", " ", "R", "E", "V", " ", "2", "0", " ", " ", " ", "7", "7", "7", "-", "7", "7", "7", "7", "7", "7", " ", " ", " ", "X", "X", "X", "X", "X", "X", "X", "X", "X", "X", " ", " ", " ", " ", " ", " ", " ", " ", "M", "I", "C", "-", "3", "D", "-", "2", "0", "G", "E", "-", "S", "F", "P", "-", "E", "\n">> \o
    <<" ", " ", " ", " ", " ", " ", "M", "I", "C", " ", "1", " ", " ", " ", " ", " ", " ", " ", " ", " ", " ", "R", "E", "V", " ", "3", "0", " ", " ", " ", "7", "7", "7", "-", "7", "7", "7", "7", "7", "7", " ", " ", " ", "X", "X", "X", "X", "X", "X", "X", "X", "X", "X", " ", " ", " ", " ", " ", " ", " ", " ", "M", "I", "C", "-", "3", "D", "-", "2", "X", "G", "E", "-", "X", "F", "P", "\n">> \o
    <<" ", " ", " ", " ", "F", "P", "C", " ", "2", " ", " ", " ", " ", " ", " ", " ", " ", " ", " ", " ", " ", " ", " ", " ", " ", " ", " ", " ", " ", " ", "B", "U", "I", "L", "T", "I", "N", "\n">> \o
    <<" ", " ", " ", " ", "F", "a", "n", " ", "T", "r", "a", "y", " ", "0", " ", " ", " ", " ", " ", " ", " ", "R", "E", "V", " ", "0", "3", " ", " ", " ", "7", "7", "7", "-", "7", "7", "7", "7", "7", "7", " ", " ", " ", "X", "X", "X", "X", "X", "X", "X", "X", "X", "X", " ", " ", " ", " ", " ", " ", " ", " ", "F", "A", "N", "T", "R", "A", "Y", "-", "M", "X", "1", "0", "4", "-", "S", "\n">> \o
    <<" ", " ", " ", " ", "T", "e", "s", "t", " ", "T", "r", "a", "y", " ", "0", " ", " ", " ", " ", " ", " ", "R", "E", "V", " ", "0", "3", " ", " ", " ", "7", "7", "7", "-", "7", "7", "7", "7", "7", "7", " ", " ", " ", "X", "X", "X", "X", "X", "X", "X", "X", "X", "X", " ", " ", " ", " ", " ", " ", " ", " ", "P", "B", "-", "4", "O", "C", "1", "2", "-", "S", "O", "N", "-", "S", "M", "I", "R">>

\* pieces of page text for the fragment extractor taken alone: two well-formed
\* components (the second spread over lines, with another property first and a
\* brace and a newline in its content), and the parts a component is made of
Spread ==
    <<"{", " ", "\"selector\"", "\n", ":", "\"sw-eol-table\"", " ", ",", "\"properties\"",
      ":", "\n", "{", "k", ",", " ", "\"htmlContent\"", " ", ":", " ", "'", "y", "\n", "}",
      "'", "\n", "}", "\n", " ", "}">>
Pieces ==
    {Fragment(<<"x">>), Spread, HeadLits, <<"\"htmlContent\"", ":">>, <<"'">>, <<"x">>,
     <<"}">>, <<"\n">>}
PieceTexts == {Join(cs, <<>>) : cs \in SeqsUpTo(Pieces, MaxPieces)}

\* htmlContent texts for the identifier-list extraction taken alone
HtmlAlphabet == {"A", ",", "<", " ", "\n"}

----------------------------------------------------------------------------
(* Values. *)

NoTables == [kind |-> "unset"]
Coroutine == [kind |-> "coroutine"]
List(items) == [kind |-> "list", items |-> items]
EmptyDict == [keys |-> <<>>, cnt |-> <<>>]
NoResult == [kind |-> "none"]
NoArg == "(absent)"

\* lines 20-27
SampleInventory ==
    [items |-> <<
        [id |-> "001", name |-> "Widget A", quantity |-> 150, unit |-> "pieces",
         category |-> "components"],
        [id |-> "002", name |-> "Widget B", quantity |-> 75, unit |-> "pieces",
         category |-> "components"],
        [id |-> "003", name |-> "Screw M5", quantity |-> 1000, unit |-> "pieces",
         category |-> "fasteners"],
        [id |-> "004", name |-> "Paint Blue", quantity |-> 25, unit |-> "liters",
         category |-> "materials"] >>]

\* the timeout of the download, lines 164 and 172
FetchTimeout == 10

\* requests.get(eol_url, headers=headers, timeout=10)
Request(url) == [url |-> url, timeout |-> FetchTimeout]

\* urllib.request.urlopen(eol_url) of the script, which passes no timeout
RequestOfScript(url) == [url |-> url]

\* the server after import, before any call
InitShell ==
    /\ name = NoArg
    /\ arguments = NoArg
    /\ SAMPLE_INVENTORY = SampleInventory
    /\ dev = "none"
    /\ requests = <<>>
    /\ earlier = <<>>

\* bool(x) of what extract_sw_eol_tables(...) evaluated to: an empty list is false,
\* a coroutine object is true
Truthy(t) == t.kind = "coroutine" \/ (t.kind = "list" /\ t.items # <<>>)

\* whether enumerate(x, 1) accepts x
Iterable(t) == t.kind = "list"

\* [TextContent(type="text", text=json.dumps(obj, indent=2))]
TextContent(obj) == [kind |-> "TextContent", json |-> obj]

\* whether text holds tok as a run of consecutive characters
OccursIn(tok, text) ==
    \E i \in 1..(Len(text) - Len(tok) + 1) : SubSeq(text, i, i + Len(tok) - 1) = tok

\* a counting step that takes a token found inside an entry for a match
CountSubstring(fru, ids, d) ==
    IF \E k \in 1..Len(ids) : OccursIn(fru, ids[k])
    THEN IF fru \in DOMAIN d.cnt THEN [d EXCEPT !.cnt[fru] = @ + 1]
         ELSE [keys |-> Append(d.keys, fru), cnt |-> d.cnt @@ (fru :> 1)]
    ELSE d

\* variants of the counting step: one that stops at 1, one that makes a key of an
\* unmatched token, one that counts every equal entry of the list
CountCapped(fru, ids, d) ==
    IF In(fru, ids)
    THEN IF fru \in DOMAIN d.cnt THEN d
         ELSE [keys |-> Append(d.keys, fru), cnt |-> d.cnt @@ (fru :> 1)]
    ELSE d

CountZeroKey(fru, ids, d) ==
    LET e == IF fru \in DOMAIN d.cnt THEN d
             ELSE [keys |-> Append(d.keys, fru), cnt |-> d.cnt @@ (fru :> 0)]
    IN IF In(fru, ids) THEN [e EXCEPT !.cnt[fru] = @ + 1] ELSE e

CountTwice(fru, ids, d) ==
    LET n == Cardinality({k \in 1..Len(ids) : ids[k] = fru})
    IN IF n = 0 THEN d
       ELSE IF fru \in DOMAIN d.cnt THEN [d EXCEPT !.cnt[fru] = @ + n]
       ELSE [keys |-> Append(d.keys, fru), cnt |-> d.cnt @@ (fru :> n)]

\* lines 203-207: count fru once when it is an entry of the identifier list
CountMatch(fru, ids, d) ==
    IF In(fru, ids)
    THEN IF fru \in DOMAIN d.cnt THEN [d EXCEPT !.cnt[fru] = @ + 1]
         ELSE [keys |-> Append(d.keys, fru), cnt |-> d.cnt @@ (fru :> 1)]
    ELSE d

----------------------------------------------------------------------------
(* The server: call_tool("analyse_inventory") and analyse_inventory_internal. *)

Init ==
    /\ pc = "idle"
    /\ hw_inventory = <<>>
    /\ eol_url = ""
    /\ lines = <<>>
    /\ li = 0
    /\ fru_list = <<>>
    /\ eol_page_content = <<>>
    /\ tables_eol = NoTables
    /\ fi = 0
    /\ ti = 0
    /\ eol_components_formatted = <<>>
    /\ eol_list = EmptyDict
    /\ ran = <<>>
    /\ result = NoResult
    /\ InitShell

\* a call that goes on with the token list of the call before it
CallKeepingTokens ==
    /\ pc = "idle"
    /\ \E inv \in Inventories, url \in Urls \cup {NoArg} :
          /\ name' = "analyse_inventory"
          /\ arguments' = [hw_inventory |-> inv, eol_url |-> url]
          /\ hw_inventory' = inv
          /\ eol_url' = IF url = NoArg THEN DefaultUrl ELSE url
          /\ lines' = Split(inv, "\n")
    /\ fru_list' = fru_list
    /\ li' = 0
    /\ pc' = "fru_loop"
    \* nothing of this call has run, been requested or been returned yet
    /\ ran' = <<>>
    /\ requests' = <<>>
    /\ result' = NoResult
    \* the other locals are bound later, before their first use
    /\ UNCHANGED <<eol_page_content, tables_eol, fi, ti, eol_components_formatted,
                   eol_list, SAMPLE_INVENTORY, dev, earlier>>

\* call_tool, lines 448-452, and the entry of analyse_inventory_internal, lines 133-140
CallAnalyseInventory ==
    /\ pc = "idle"
    /\ \E inv \in Inventories, url \in Urls \cup {NoArg} :
          /\ name' = "analyse_inventory"
          /\ arguments' = [hw_inventory |-> inv, eol_url |-> url]
          /\ hw_inventory' = inv
          /\ eol_url' = IF url = NoArg THEN DefaultUrl ELSE url
          /\ lines' = Split(inv, "\n")
    /\ fru_list' = <<>>
    /\ li' = 0
    /\ pc' = "fru_loop"
    \* nothing of this call has run, been requested or been returned yet
    /\ ran' = <<>>
    /\ requests' = <<>>
    /\ result' = NoResult
    \* the other locals are bound later, before their first use
    /\ UNCHANGED <<eol_page_content, tables_eol, fi, ti, eol_components_formatted,
                   eol_list, SAMPLE_INVENTORY, dev, earlier>>

\* one iteration of `for line in lines`, lines 142-156
FruLine ==
    /\ pc = "fru_loop"
    /\ li < Len(lines)
    /\ fru_list' = FruLoopBody(lines[li + 1], fru_list)
    /\ li' = li + 1
    /\ UNCHANGED <<pc, hw_inventory, eol_url, lines, eol_page_content, tables_eol, fi,
                   ti, eol_components_formatted, eol_list, ran, result>>
    /\ UNCHANGED shell

\* the loop is exhausted
FruDone ==
    /\ pc = "fru_loop"
    /\ li = Len(lines)
    /\ pc' = "fetch"
    /\ ran' = Append(ran, "fru")
    /\ UNCHANGED <<hw_inventory, eol_url, lines, li, fru_list, eol_page_content,
                   tables_eol, fi, ti, eol_components_formatted, eol_list, result>>
    /\ UNCHANGED shell

\* lines 159-182: the download raises inside the try, the handler returns the error
FetchFailLosesTokens ==
    /\ pc = "fetch"
    /\ \E cause \in FetchFailures :
          /\ result' = TextContent([error |-> cause, fru_list |-> <<>>,
                                    note |-> "could not verify"])
          /\ ran' = Append(ran, cause)
    /\ pc' = "returned"
    /\ UNCHANGED <<hw_inventory, eol_url, lines, li, fru_list, eol_page_content,
                   tables_eol, fi, ti, eol_components_formatted, eol_list>>
    /\ requests' = Append(requests, Request(eol_url))
    /\ UNCHANGED <<name, arguments, SAMPLE_INVENTORY, dev, earlier>>

\* a failed download that is tried once more before the error is returned
FetchFailRetrying ==
    /\ pc = "fetch"
    /\ requests' = Append(requests, Request(eol_url))
    /\ IF requests = <<>>
       THEN UNCHANGED <<pc, ran, result>>
       ELSE /\ \E cause \in FetchFailures :
                  /\ result' = TextContent([error |-> cause, fru_list |-> fru_list,
                                            note |-> "could not verify"])
                  /\ ran' = Append(ran, cause)
            /\ pc' = "returned"
    /\ UNCHANGED <<hw_inventory, eol_url, lines, li, fru_list, eol_page_content,
                   tables_eol, fi, ti, eol_components_formatted, eol_list>>
    /\ UNCHANGED <<name, arguments, SAMPLE_INVENTORY, dev, earlier>>

FetchFail ==
    /\ pc = "fetch"
    /\ \E cause \in FetchFailures :
          /\ result' = TextContent([error |-> cause, fru_list |-> fru_list,
                                    note |-> "could not verify"])
          /\ ran' = Append(ran, cause)
    /\ pc' = "returned"
    /\ UNCHANGED <<hw_inventory, eol_url, lines, li, fru_list, eol_page_content,
                   tables_eol, fi, ti, eol_components_formatted, eol_list>>
    /\ requests' = Append(requests, Request(eol_url))
    /\ UNCHANGED <<name, arguments, SAMPLE_INVENTORY, dev, earlier>>

\* lines 159-173: the download succeeds
FetchOk ==
    /\ pc = "fetch"
    /\ \E page \in Pages : eol_page_content' = page
    /\ ran' = Append(ran, "fetch_ok")
    /\ pc' = "extract"
    /\ UNCHANGED <<hw_inventory, eol_url, lines, li, fru_list, tables_eol, fi, ti,
                   eol_components_formatted, eol_list, result>>
    /\ requests' = Append(requests, Request(eol_url))
    /\ UNCHANGED <<name, arguments, SAMPLE_INVENTORY, dev, earlier>>

\* line 185: extract_sw_eol_tables is a coroutine function and the call is not
\* awaited, so the name is bound to a coroutine object and the body never runs
CallExtract ==
    /\ pc = "extract"
    /\ tables_eol' = Coroutine
    /\ pc' = "check"
    /\ UNCHANGED <<hw_inventory, eol_url, lines, li, fru_list, eol_page_content, fi, ti,
                   eol_components_formatted, eol_list, ran, result>>
    /\ UNCHANGED shell

\* lines 187-192
CheckTables ==
    /\ pc = "check"
    /\ IF ~Truthy(tables_eol)
       THEN /\ result' = [kind |-> "int", value |-> 1]
            /\ pc' = "returned"
            /\ UNCHANGED eol_list
       ELSE /\ eol_list' = EmptyDict
            /\ pc' = "for"
            /\ UNCHANGED result
    /\ UNCHANGED <<hw_inventory, eol_url, lines, li, fru_list, eol_page_content,
                   tables_eol, fi, ti, eol_components_formatted, ran>>
    /\ UNCHANGED shell

\* line 195: enumerate() of an object that is not iterable raises TypeError, which
\* nothing in analyse_inventory_internal or call_tool catches.  The loop body and
\* the report (lines 196-226) need an iterable here.
ForTables ==
    /\ pc = "for"
    /\ ~Iterable(tables_eol)
    /\ result' = [kind |-> "raised", exc |-> "TypeError"]
    /\ pc' = "raised"
    /\ UNCHANGED <<hw_inventory, eol_url, lines, li, fru_list, eol_page_content,
                   tables_eol, fi, ti, eol_components_formatted, eol_list, ran>>
    /\ UNCHANGED shell

Next ==
    \/ CallAnalyseInventory
    \/ FruLine
    \/ FruDone
    \/ FetchFail
    \/ FetchOk
    \/ CallExtract
    \/ CheckTables
    \/ ForTables

Spec == Init /\ [][Next]_vars

----------------------------------------------------------------------------
(* Two calls of analyse_inventory in a row, the second with the arguments and the *)
(* download outcome of the first.                                                *)

\* what the download of this run gave: the cause of the failure or the page text
Fetched ==
    IF \E k \in 1..Len(ran) : ran[k] \in FetchFailures
    THEN [failed |-> TRUE, cause |-> ran[Len(ran)]]
    ELSE [failed |-> FALSE, page |-> eol_page_content]

\* line 452: the call is over and the server waits for the next one; the locals of
\* the call stay behind, out of reach
RecordRun ==
    /\ pc \in {"returned", "raised"}
    /\ earlier = <<>>
    /\ earlier' = <<[arguments |-> arguments, fetched |-> Fetched, ended |-> pc,
                     result |-> result]>>
    /\ pc' = "idle"
    /\ UNCHANGED <<hw_inventory, eol_url, lines, li, fru_list, eol_page_content,
                   tables_eol, fi, ti, eol_components_formatted, eol_list, ran, result,
                   name, arguments, SAMPLE_INVENTORY, dev, requests>>

\* the inventories and pages of the two-run specification: one line and one chunk
\* less than elsewhere
RunInventories == {Join(ls, <<"\n">>) : ls \in SeqsUpTo(InvLines, MaxInvLines - 1)}
RunPages == {Join(cs, <<"\n">>) : cs \in SeqsUpTo(PageChunks, MaxPageChunks - 1)}

SameArguments ==
    /\ hw_inventory \in RunInventories
    /\ earlier = <<>> \/ arguments = earlier[1].arguments
SameFetched ==
    /\ eol_page_content \in RunPages \cup {<<>>}
    /\ earlier = <<>> \/ Fetched = earlier[1].fetched

NextRuns ==
    \/ CallAnalyseInventory /\ SameArguments'
    \/ FruLine
    \/ FruDone
    \/ FetchFail /\ SameFetched'
    \/ FetchOk /\ SameFetched'
    \/ CallExtract
    \/ CheckTables
    \/ ForTables
    \/ RecordRun

SpecRuns == Init /\ [][NextRuns]_vars

----------------------------------------------------------------------------
(* call_tool("get_show_chassis"), lines 328-429. *)

\* the routers devices.json describes, and the names a caller may give
DevicesConfig == {"TOEGREC2"}
RouterNames == {"TOEGREC2", "UNKNOWN", NoArg}

\* lines 328-331
CallGetShowChassis ==
    /\ pc = "idle"
    /\ \E router \in RouterNames, url \in Urls \cup {NoArg} :
          /\ arguments' = [router_name |-> router, eol_url |-> url]
          /\ eol_url' = IF url = NoArg THEN DefaultUrl ELSE url
    /\ name' = "get_show_chassis"
    /\ ran' = <<>>
    /\ requests' = <<>>
    /\ result' = NoResult
    /\ pc' = "devices_file"
    /\ UNCHANGED <<hw_inventory, lines, li, fru_list, eol_page_content, tables_eol, fi,
                   ti, eol_components_formatted, eol_list, SAMPLE_INVENTORY, dev, earlier>>

\* lines 334-341: devices.json does not exist
NoDevicesFile ==
    /\ pc = "devices_file"
    /\ result' = TextContent([error |-> "devices.json file not found"])
    /\ ran' = Append(ran, "no_devices_file")
    /\ pc' = "tool_returned"
    /\ UNCHANGED dev
    /\ UNCHANGED <<hw_inventory, eol_url, lines, li, fru_list, eol_page_content,
                   tables_eol, fi, ti, eol_components_formatted, eol_list>>
    /\ UNCHANGED <<name, arguments, SAMPLE_INVENTORY, requests, earlier>>

\* lines 343-352: devices.json cannot be opened or parsed
DevicesFileUnreadable ==
    /\ pc = "devices_file"
    /\ result' = TextContent([error |-> "Failed to read devices.json"])
    /\ ran' = Append(ran, "devices_unreadable")
    /\ pc' = "tool_returned"
    /\ UNCHANGED dev
    /\ UNCHANGED <<hw_inventory, eol_url, lines, li, fru_list, eol_page_content,
                   tables_eol, fi, ti, eol_components_formatted, eol_list>>
    /\ UNCHANGED <<name, arguments, SAMPLE_INVENTORY, requests, earlier>>

\* lines 343-365: devices.json is read; the router is looked up
DevicesFileRead ==
    /\ pc = "devices_file"
    /\ IF arguments.router_name \notin DevicesConfig
       THEN /\ result' = TextContent([error |-> "Router not found in devices.json",
                                      available_routers |-> DevicesConfig])
            /\ ran' = Append(ran, "unknown_router")
            /\ pc' = "tool_returned"
       ELSE /\ ran' = Append(ran, "router_details")
            /\ pc' = "import"
            /\ UNCHANGED result
    /\ UNCHANGED dev
    /\ UNCHANGED <<hw_inventory, eol_url, lines, li, fru_list, eol_page_content,
                   tables_eol, fi, ti, eol_components_formatted, eol_list>>
    /\ UNCHANGED <<name, arguments, SAMPLE_INVENTORY, requests, earlier>>

\* lines 368-376: jnpr.junos cannot be imported
NoLibrary ==
    /\ pc = "import"
    /\ result' = TextContent([error |-> "jnpr.junos library not installed"])
    /\ ran' = Append(ran, "no_library")
    /\ pc' = "tool_returned"
    /\ UNCHANGED dev
    /\ UNCHANGED <<hw_inventory, eol_url, lines, li, fru_list, eol_page_content,
                   tables_eol, fi, ti, eol_components_formatted, eol_list>>
    /\ UNCHANGED <<name, arguments, SAMPLE_INVENTORY, requests, earlier>>

\* lines 368-369: jnpr.junos is imported
LibraryImported ==
    /\ pc = "import"
    /\ pc' = "connect"
    /\ UNCHANGED <<ran, result, dev>>
    /\ UNCHANGED <<hw_inventory, eol_url, lines, li, fru_list, eol_page_content,
                   tables_eol, fi, ti, eol_components_formatted, eol_list>>
    /\ UNCHANGED <<name, arguments, SAMPLE_INVENTORY, requests, earlier>>

\* lines 378-399 and 407-415: Device(...) or dev.open() raises
DevOpenFails ==
    /\ pc = "connect"
    /\ result' = TextContent([error |-> "Failed to connect to router or execute command"])
    /\ ran' = Append(ran, "dev_open_failed")
    /\ pc' = "tool_returned"
    /\ UNCHANGED dev
    /\ UNCHANGED <<hw_inventory, eol_url, lines, li, fru_list, eol_page_content,
                   tables_eol, fi, ti, eol_components_formatted, eol_list>>
    /\ UNCHANGED <<name, arguments, SAMPLE_INVENTORY, requests, earlier>>

\* lines 378-399: dev.open() returns
DevOpen ==
    /\ pc = "connect"
    /\ dev' = "open"
    /\ ran' = Append(ran, "dev_open")
    /\ pc' = "cli"
    /\ UNCHANGED result
    /\ UNCHANGED <<hw_inventory, eol_url, lines, li, fru_list, eol_page_content,
                   tables_eol, fi, ti, eol_components_formatted, eol_list>>
    /\ UNCHANGED <<name, arguments, SAMPLE_INVENTORY, requests, earlier>>

\* lines 402 and 407-415: dev.cli(...) raises; the handler returns without dev.close()
DevCliFails ==
    /\ pc = "cli"
    /\ result' = TextContent([error |-> "Failed to connect to router or execute command"])
    /\ ran' = Append(ran, "cli_failed")
    /\ pc' = "tool_returned"
    /\ UNCHANGED dev
    /\ UNCHANGED <<hw_inventory, eol_url, lines, li, fru_list, eol_page_content,
                   tables_eol, fi, ti, eol_components_formatted, eol_list>>
    /\ UNCHANGED <<name, arguments, SAMPLE_INVENTORY, requests, earlier>>

\* lines 402-405: dev.cli(...) returns the inventory text and dev.close() is called
DevCliAndClose ==
    /\ pc = "cli"
    /\ \E inv \in Inventories : hw_inventory' = inv
    /\ dev' = "closed"
    /\ ran' = ran \o <<"cli", "dev_close">>
    /\ pc' = "analyse"
    /\ UNCHANGED <<eol_url, lines, li, fru_list, eol_page_content, tables_eol, fi, ti,
                   eol_components_formatted, eol_list, result>>
    /\ UNCHANGED <<name, arguments, SAMPLE_INVENTORY, requests, earlier>>

\* line 418 and lines 133-140: analyse_inventory_internal is entered
EnterAnalyseInventory ==
    /\ pc = "analyse"
    /\ lines' = Split(hw_inventory, "\n")
    /\ fru_list' = <<>>
    /\ li' = 0
    /\ ran' = Append(ran, "analyse")
    /\ pc' = "fru_loop"
    /\ UNCHANGED <<hw_inventory, eol_url, eol_page_content, tables_eol, fi, ti,
                   eol_components_formatted, eol_list, result>>
    /\ UNCHANGED shell

\* lines 418-429: the analysis has returned; its result gets the router's name,
\* address and command, or is not a list to take [0] of
ChassisReturn ==
    /\ pc = "returned"
    /\ name = "get_show_chassis"
    /\ IF result.kind = "TextContent"
       THEN /\ result' = TextContent(result.json @@
                             [router_name |-> arguments.router_name,
                              router_ip |-> "ip",
                              command_executed |-> "show chassis hardware clei-models"])
            /\ pc' = "tool_returned"
       ELSE /\ result' = [kind |-> "raised", exc |-> "TypeError"]
            /\ pc' = "raised"
    /\ UNCHANGED ran
    /\ UNCHANGED <<hw_inventory, eol_url, lines, li, fru_list, eol_page_content,
                   tables_eol, fi, ti, eol_components_formatted, eol_list>>
    /\ UNCHANGED shell

NextChassis ==
    \/ CallGetShowChassis
    \/ NoDevicesFile
    \/ DevicesFileUnreadable
    \/ DevicesFileRead
    \/ NoLibrary
    \/ LibraryImported
    \/ DevOpenFails
    \/ DevOpen
    \/ DevCliFails
    \/ DevCliAndClose
    \/ EnterAnalyseInventory
    \/ FruLine
    \/ FruDone
    \/ FetchFail
    \/ FetchOk
    \/ CallExtract
    \/ CheckTables
    \/ ForTables
    \/ ChassisReturn

SpecChassis == Init /\ [][NextChassis]_vars

----------------------------------------------------------------------------
(* call_tool("get_inventory") and call_tool("create_bom"), lines 431-509. *)

NoItem == [id |-> NoArg]

\* lines 468-471: next(item for item in SAMPLE_INVENTORY["items"] if item["id"] == item_id)
RECURSIVE FindItem(_, _)
FindItem(items, item_id) ==
    IF items = <<>> THEN NoItem
    ELSE IF Head(items).id = item_id THEN Head(items)
    ELSE FindItem(Tail(items), item_id)

\* a comparison that wants more than is needed
SufficientStrictly(available, total_needed) == available > total_needed

\* line 475
Sufficient(available, total_needed) == available >= total_needed

\* lines 463-498: the entry of one component
BomItem(component, units_to_produce, inventory) ==
    LET item_id == component.item_id
        quantity_needed == component.quantity_needed
        total_needed == quantity_needed * units_to_produce
        inventory_item == FindItem(inventory.items, item_id)
    IN IF inventory_item # NoItem
       THEN [item_id |-> item_id,
             item_name |-> inventory_item.name,
             quantity_per_unit |-> quantity_needed,
             total_quantity_needed |-> total_needed,
             available_in_inventory |-> inventory_item.quantity,
             sufficient_stock |-> Sufficient(inventory_item.quantity, total_needed),
             shortage |-> Max({0, total_needed - inventory_item.quantity}),
             unit |-> inventory_item.unit]
       ELSE [item_id |-> item_id,
             item_name |-> "UNKNOWN",
             quantity_per_unit |-> quantity_needed,
             total_quantity_needed |-> total_needed,
             available_in_inventory |-> 0,
             sufficient_stock |-> FALSE,
             shortage |-> total_needed,
             error |-> "Item not found in inventory"]

\* bounds and values of the components of a bill of materials
MaxComponents == 2
Components == {[item_id |-> i, quantity_needed |-> q] :
                  i \in {"001", "004", "999"}, q \in {1, 13, 25}}
\* units_to_produce: absent, or given
UnitsGiven == {<<>>, <<0>>, <<2>>}
Categories == {NoArg, "components", "fasteners", "tools"}

\* lines 454-509
CallCreateBom ==
    /\ pc = "idle"
    /\ \E components \in SeqsUpTo(Components, MaxComponents), given \in UnitsGiven :
          LET units_to_produce == IF given = <<>> THEN 1 ELSE given[1]
              bom_items == [k \in 1..Len(components) |->
                               BomItem(components[k], units_to_produce, SAMPLE_INVENTORY)]
          IN /\ arguments' = [product_name |-> "product", components |-> components,
                              units_to_produce |-> given]
             /\ result' = TextContent(
                    [product_name |-> "product",
                     units_to_produce |-> units_to_produce,
                     components |-> bom_items,
                     can_produce |-> \A k \in 1..Len(bom_items) :
                                        bom_items[k].sufficient_stock])
    /\ name' = "create_bom"
    /\ pc' = "tool_returned"
    /\ UNCHANGED <<hw_inventory, eol_url, lines, li, fru_list, eol_page_content,
                   tables_eol, fi, ti, eol_components_formatted, eol_list, ran,
                   SAMPLE_INVENTORY, dev, requests, earlier>>

\* lines 431-446
CallGetInventory ==
    /\ pc = "idle"
    /\ \E category \in Categories :
          LET all == SAMPLE_INVENTORY.items
              items == IF category # NoArg
                       THEN SelectSeq(all, LAMBDA item : item.category = category)
                       ELSE all
          IN /\ arguments' = [category |-> category]
             /\ result' = TextContent([total_items |-> Len(items), items |-> items])
    /\ name' = "get_inventory"
    /\ pc' = "tool_returned"
    /\ UNCHANGED <<hw_inventory, eol_url, lines, li, fru_list, eol_page_content,
                   tables_eol, fi, ti, eol_components_formatted, eol_list, ran,
                   SAMPLE_INVENTORY, dev, requests, earlier>>

\* the call is over (its result sent, or its exception reported) and the server
\* waits for the next one; only the module-level state lives on
ToolReturns ==
    /\ \/ pc = "tool_returned"
       \/ pc = "returned" /\ name = "analyse_inventory"
       \/ pc = "raised"
    /\ pc' = "idle"
    /\ hw_inventory' = <<>>
    /\ eol_url' = ""
    /\ lines' = <<>>
    /\ li' = 0
    /\ fru_list' = <<>>
    /\ eol_page_content' = <<>>
    /\ tables_eol' = NoTables
    /\ fi' = 0
    /\ ti' = 0
    /\ eol_components_formatted' = <<>>
    /\ eol_list' = EmptyDict
    /\ ran' = <<>>
    /\ result' = NoResult
    /\ name' = NoArg
    /\ arguments' = NoArg
    /\ requests' = <<>>
    /\ UNCHANGED <<SAMPLE_INVENTORY, dev, earlier>>

\* the server with all its tools
NextServer ==
    \/ CallCreateBom
    \/ CallGetInventory
    \/ CallAnalyseInventory
    \/ CallGetShowChassis
    \/ NoDevicesFile
    \/ DevicesFileUnreadable
    \/ DevicesFileRead
    \/ NoLibrary
    \/ LibraryImported
    \/ DevOpenFails
    \/ DevOpen
    \/ DevCliFails
    \/ DevCliAndClose
    \/ EnterAnalyseInventory
    \/ FruLine
    \/ FruDone
    \/ FetchFail
    \/ FetchOk
    \/ CallExtract
    \/ CheckTables
    \/ ForTables
    \/ ChassisReturn
    \/ ToolReturns

SpecServer == Init /\ [][NextServer]_vars

----------------------------------------------------------------------------
(* parse_eol_table_html, lines 71-122.  The document BeautifulSoup hands back is  *)
(* a sequence of tables; a table has a thead and a tbody, each absent or a        *)
(* sequence of rows; a header row is the sequence of the texts of its th cells,   *)
(* a body row the sequence of its td cells; a cell has a text and, when it holds  *)
(* a link, the attributes of the link.                                            *)

NoSection == [present |-> FALSE]
Section(rows) == [present |-> TRUE, rows |-> rows]
NoLink == [tag |-> "none"]
Link(attrs) == [tag |-> "a", attrs |-> attrs]
Cell(text, link) == [text |-> text, link |-> link]

\* element.get_text(strip=True) of an element with one text
get_text(text) == Strip(text)

\* link.get(key, '')
Get(link, key) == IF key \in DOMAIN link.attrs THEN link.attrs[key] ELSE <<>>

\* row_dict = {}
EmptyRow == [keys |-> <<>>, val |-> <<>>]

\* row_dict[header] = value
Put(d, key, value) ==
    IF key \in DOMAIN d.val THEN [d EXCEPT !.val[key] = value]
    ELSE [keys |-> Append(d.keys, key), val |-> d.val @@ (key :> value)]

\* lines 109-117: what a cell contributes
CellValue(td) ==
    IF td.link # NoLink
    THEN [text |-> get_text(td.text), url |-> Get(td.link, "href"),
          title |-> Get(td.link, "title")]
    ELSE [text |-> get_text(td.text)]

\* lines 85-94
Headers(table) ==
    IF ~table.thead.present \/ table.thead.rows = <<>> THEN <<>>
    ELSE [k \in 1..Len(table.thead.rows[1]) |-> get_text(table.thead.rows[1][k])]

\* lines 101-117: the dictionary of one body row, cell by cell
RECURSIVE RowDict(_, _, _, _)
RowDict(headers, cells, idx, row_dict) ==
    IF idx > Len(cells) THEN row_dict
    ELSE RowDict(headers, cells, idx + 1,
                 IF idx <= Len(headers)
                 THEN Put(row_dict, headers[idx], CellValue(cells[idx]))
                 ELSE row_dict)

\* lines 97-120
RECURSIVE Rows(_, _, _)
Rows(headers, trs, rows_data) ==
    IF trs = <<>> THEN rows_data
    ELSE LET row_dict == RowDict(headers, Head(trs), 1, EmptyRow)
         IN Rows(headers, Tail(trs),
                 IF row_dict # EmptyRow THEN Append(rows_data, row_dict) ELSE rows_data)

parse_eol_table_html(soup) ==
    IF soup = <<>> THEN <<>>
    ELSE LET table == soup[1]
         IN IF ~table.tbody.present THEN <<>>
            ELSE Rows(Headers(table), table.tbody.rows, <<>>)

\* bounds of the tables
MaxCols == 2
MaxRows == 2

HeaderTexts == {<<"M">>, <<" ", "D", " ">>}
Cells ==
    { Cell(<<"C">>, NoLink),
      Cell(<<" ">>, NoLink),
      Cell(<<" ", "P">>, Link(("href" :> <<"u">>) @@ ("title" :> <<"t">>))),
      Cell(<<"R">>, Link(<<>>)) }

Theads ==
    {NoSection, Section(<<>>)} \cup {Section(<<hs>>) : hs \in SeqsUpTo(HeaderTexts, MaxCols)}
        \cup {Section(<< <<(<<"M">>)>>, <<(<<"M">>), (<<" ", "D", " ">>)>> >>)}
Tbodies == {NoSection} \cup {Section(rs) : rs \in SeqsUpTo(SeqsUpTo(Cells, MaxCols), MaxRows)}
Tables == {[thead |-> h, tbody |-> b] : h \in Theads, b \in Tbodies}
Documents ==
    {<<>>} \cup {<<t>> : t \in Tables}
        \cup {<<[thead |-> NoSection, tbody |-> Section(<<>>)],
                [thead |-> Section(<< <<(<<"M">>)>> >>),
                 tbody |-> Section(<< <<Cell(<<"C">>, NoLink)>> >>)]>>}

\* a call of parse_eol_table_html on the parsed html_content
ParseEolTableHtml ==
    /\ pc = "idle"
    /\ \E soup \in Documents :
          /\ arguments' = [html_content |-> soup]
          /\ result' = [kind |-> "rows", rows |-> parse_eol_table_html(soup)]
    /\ name' = "parse_eol_table_html"
    /\ pc' = "returned"
    /\ UNCHANGED <<hw_inventory, eol_url, lines, li, fru_list, eol_page_content,
                   tables_eol, fi, ti, eol_components_formatted, eol_list, ran,
                   SAMPLE_INVENTORY, dev, requests, earlier>>

NextTable == ParseEolTableHtml

SpecTable == Init /\ [][NextTable]_vars

----------------------------------------------------------------------------
(* The script: main() of test_analyse_inventory.py, whose extract_sw_eol_tables *)
(* is an ordinary function.                                                    *)

InitMain ==
    /\ pc = "m_fetch"
    /\ hw_inventory = <<>>
    /\ eol_url = DefaultUrl
    /\ lines = <<>>
    /\ li = 0
    /\ fru_list = <<>>
    /\ eol_page_content = <<>>
    /\ tables_eol = NoTables
    /\ fi = 0
    /\ ti = 0
    /\ eol_components_formatted = <<>>
    /\ eol_list = EmptyDict
    /\ ran = <<>>
    /\ result = NoResult
    /\ InitShell

\* lines 194-202: the download raises, main returns a dictionary
MainFetchFail ==
    /\ pc = "m_fetch"
    /\ \E cause \in FetchFailures :
          /\ result' = [kind |-> "dict", json |-> [error |-> cause]]
          /\ ran' = Append(ran, cause)
    /\ pc' = "returned"
    /\ UNCHANGED <<hw_inventory, eol_url, lines, li, fru_list, eol_page_content,
                   tables_eol, fi, ti, eol_components_formatted, eol_list>>
    /\ requests' = Append(requests, RequestOfScript(eol_url))
    /\ UNCHANGED <<name, arguments, SAMPLE_INVENTORY, dev, earlier>>

\* lines 194-198
MainFetchOk ==
    /\ pc = "m_fetch"
    /\ \E page \in Pages : eol_page_content' = page
    /\ ran' = Append(ran, "fetch_ok")
    /\ pc' = "m_extract"
    /\ UNCHANGED <<hw_inventory, eol_url, lines, li, fru_list, tables_eol, fi, ti,
                   eol_components_formatted, eol_list, result>>
    /\ requests' = Append(requests, RequestOfScript(eol_url))
    /\ UNCHANGED <<name, arguments, SAMPLE_INVENTORY, dev, earlier>>

\* line 207
MainExtract ==
    /\ pc = "m_extract"
    /\ tables_eol' = List(extract_sw_eol_tables(eol_page_content))
    /\ ran' = Append(ran, "extract")
    /\ pc' = "m_check"
    /\ UNCHANGED <<hw_inventory, eol_url, lines, li, fru_list, eol_page_content, fi, ti,
                   eol_components_formatted, eol_list, result>>
    /\ UNCHANGED shell

\* lines 209-231
MainCheckTables ==
    /\ pc = "m_check"
    /\ IF ~Truthy(tables_eol)
       THEN /\ result' = [kind |-> "int", value |-> 1]
            /\ pc' = "returned"
            /\ UNCHANGED <<hw_inventory, lines, li, fru_list>>
       ELSE /\ fru_list' = <<>>
            /\ hw_inventory' = SAMPLE_HW_INVENTORY
            /\ lines' = Split(SAMPLE_HW_INVENTORY, "\n")
            /\ li' = 0
            /\ pc' = "m_fru"
            /\ UNCHANGED result
    /\ UNCHANGED <<eol_url, eol_page_content, tables_eol, fi, ti,
                   eol_components_formatted, eol_list, ran>>
    /\ UNCHANGED shell

\* one iteration of `for line in lines`, lines 233-247
MainFruLine ==
    /\ pc = "m_fru"
    /\ li < Len(lines)
    /\ fru_list' = FruLoopBody(lines[li + 1], fru_list)
    /\ li' = li + 1
    /\ UNCHANGED <<pc, hw_inventory, eol_url, lines, eol_page_content, tables_eol, fi,
                   ti, eol_components_formatted, eol_list, ran, result>>
    /\ UNCHANGED shell

\* the loop is exhausted; line 251
MainFruDone ==
    /\ pc = "m_fru"
    /\ li = Len(lines)
    /\ eol_list' = EmptyDict
    /\ fi' = 0
    /\ ran' = Append(ran, "fru")
    /\ pc' = "m_for"
    /\ UNCHANGED <<hw_inventory, eol_url, lines, li, fru_list, eol_page_content,
                   tables_eol, ti, eol_components_formatted, result>>
    /\ UNCHANGED shell

\* lines 252-257: the next fragment of `for idx, tables_eol in enumerate(tables_eol, 1)`
\* (the iterator keeps the list while the loop variable takes its name) and its
\* identifier list
MainForTables ==
    /\ pc = "m_for"
    /\ fi < Len(tables_eol.items)
    /\ eol_components_formatted' =
          IdentifierList(tables_eol.items[fi + 1].properties.htmlContent)
    /\ ti' = 0
    /\ pc' = "m_tokens"
    /\ UNCHANGED <<hw_inventory, eol_url, lines, li, fru_list, eol_page_content,
                   tables_eol, fi, eol_list, ran, result>>
    /\ UNCHANGED shell

\* one iteration of `for fru in fru_list`, lines 263-269
MainMatchToken ==
    /\ pc = "m_tokens"
    /\ ti < Len(fru_list)
    /\ eol_list' = CountMatch(fru_list[ti + 1], eol_components_formatted, eol_list)
    /\ ti' = ti + 1
    /\ UNCHANGED <<pc, hw_inventory, eol_url, lines, li, fru_list, eol_page_content,
                   tables_eol, fi, eol_components_formatted, ran, result>>
    /\ UNCHANGED shell

\* the inner loop is exhausted: back to line 252
MainTokensDone ==
    /\ pc = "m_tokens"
    /\ ti = Len(fru_list)
    /\ fi' = fi + 1
    /\ pc' = "m_for"
    /\ UNCHANGED <<hw_inventory, eol_url, lines, li, fru_list, eol_page_content,
                   tables_eol, ti, eol_components_formatted, eol_list, ran, result>>
    /\ UNCHANGED shell

\* the outer loop is exhausted; lines 275-276
MainReturn ==
    /\ pc = "m_for"
    /\ fi = Len(tables_eol.items)
    /\ result' = [kind |-> "int", value |-> 0]
    /\ ran' = Append(ran, "match")
    /\ pc' = "returned"
    /\ UNCHANGED <<hw_inventory, eol_url, lines, li, fru_list, eol_page_content,
                   tables_eol, fi, ti, eol_components_formatted, eol_list>>
    /\ UNCHANGED shell

NextMain ==
    \/ MainFetchFail
    \/ MainFetchOk
    \/ MainExtract
    \/ MainCheckTables
    \/ MainFruLine
    \/ MainFruDone
    \/ MainForTables
    \/ MainMatchToken
    \/ MainTokensDone
    \/ MainReturn

SpecMain == InitMain /\ [][NextMain]_vars

----------------------------------------------------------------------------
(* The stages taken alone, over every input within the bounds. *)

\* the FRU loop on every inventory text of at most MaxInvLen characters, and on the
\* router inventories
InitFru ==
    /\ pc = "fru_loop"
    /\ hw_inventory \in Texts(InvAlphabet, MaxInvLen) \cup Inventories
    /\ eol_url = DefaultUrl
    /\ lines = Split(hw_inventory, "\n")
    /\ li = 0
    /\ fru_list = <<>>
    /\ eol_page_content = <<>>
    /\ tables_eol = NoTables
    /\ fi = 0
    /\ ti = 0
    /\ eol_components_formatted = <<>>
    /\ eol_list = EmptyDict
    /\ ran = <<>>
    /\ result = NoResult
    /\ InitShell

NextFru == FruLine \/ FruDone

SpecFru == InitFru /\ [][NextFru]_vars

\* the fragment extractor on every page text of at most MaxPieces pieces
InitFrag ==
    /\ pc = "m_extract"
    /\ hw_inventory = <<>>
    /\ eol_url = DefaultUrl
    /\ lines = <<>>
    /\ li = 0
    /\ fru_list = <<>>
    /\ eol_page_content \in PieceTexts
    /\ tables_eol = NoTables
    /\ fi = 0
    /\ ti = 0
    /\ eol_components_formatted = <<>>
    /\ eol_list = EmptyDict
    /\ ran = <<"fetch_ok">>
    /\ result = NoResult
    /\ InitShell

NextFrag == MainExtract

SpecFrag == InitFrag /\ [][NextFrag]_vars

\* the identifier-list extraction on every htmlContent of at most MaxHtmlLen characters
InitIds ==
    /\ pc = "m_for"
    /\ hw_inventory = <<>>
    /\ eol_url = DefaultUrl
    /\ lines = <<>>
    /\ li = 0
    /\ fru_list = <<>>
    /\ eol_page_content = <<>>
    /\ \E h \in Texts(HtmlAlphabet, MaxHtmlLen) :
          tables_eol = List(<<[selector |-> "sw-eol-table",
                               properties |-> [htmlContent |-> h]]>>)
    /\ fi = 0
    /\ ti = 0
    /\ eol_components_formatted = <<>>
    /\ eol_list = EmptyDict
    /\ ran = <<"fetch_ok", "extract", "fru">>
    /\ result = NoResult
    /\ InitShell

NextIds == MainForTables

SpecIds == InitIds /\ [][NextIds]_vars

\* the identifier-list extraction and the matching of one fragment, on every
\* htmlContent of at most MaxHtmlLen characters and two tokens
ShapeAlphabet == {"A", "-", ",", "<", " "}
ShapeTokens == <<SubSeq(Content1, 1, 12), <<"A", "-", "A">>>>

InitShape ==
    /\ pc = "m_for"
    /\ hw_inventory = <<>>
    /\ eol_url = DefaultUrl
    /\ lines = <<>>
    /\ li = 0
    /\ fru_list = ShapeTokens
    /\ eol_page_content = <<>>
    /\ \E h \in Texts(ShapeAlphabet, MaxHtmlLen) :
          tables_eol = List(<<[selector |-> "sw-eol-table",
                               properties |-> [htmlContent |-> h]]>>)
    /\ fi = 0
    /\ ti = 0
    /\ eol_components_formatted = <<>>
    /\ eol_list = EmptyDict
    /\ ran = <<"fetch_ok", "extract", "fru">>
    /\ result = NoResult
    /\ InitShell

NextShape == MainForTables \/ MainMatchToken \/ MainTokensDone \/ MainReturn

SpecShape == InitShape /\ [][NextShape]_vars

----------------------------------------------------------------------------
(* Properties. *)

\* the k-th smallest element of a set of numbers
Nth(S, k) == CHOOSE x \in S : Cardinality({y \in S : y < x}) = k - 1

\* the identifier grammar: [A-Z0-9]+ - [A-Z0-9-]+ over the whole field
IsFruToken(w) ==
    \E h \in 2..(Len(w) - 1) :
        /\ w[h] = "-"
        /\ \A i \in 1..(h - 1) : w[i] \in UpperDigit
        /\ \A i \in (h + 1)..Len(w) : w[i] \in UpperDigit \cup {"-"}

\* the positions after which a line of the text starts, and the line's last position
LineStarts(text) == {0} \cup {i \in 1..Len(text) : text[i] = "\n"}
LineEnd(text, b) == Min({i \in (b + 1)..Len(text) : text[i] = "\n"} \cup {Len(text) + 1}) - 1

\* the last whitespace-delimited field of the line starting after b (<<>> for a blank line)
LastField(text, b) ==
    LET solid == {i \in (b + 1)..LineEnd(text, b) : text[i] \notin Whitespace}
    IN IF solid = {} THEN <<>>
       ELSE LET z == Max(solid)
                a == Min({j \in (b + 1)..z : \A i \in j..z : text[i] \notin Whitespace})
            IN SubSeq(text, a, z)

\* the lines whose last field is an identifier
Accepted(text) == {b \in LineStarts(text) : IsFruToken(LastField(text, b))}

\* the FRU token sequence the inventory text stands for
IsFruSequenceOf(frus, text) ==
    LET acc == Accepted(text)
    IN /\ Len(frus) = Cardinality(acc)
       /\ \A k \in 1..Len(frus) : frus[k] = LastField(text, Nth(acc, k))

\* C1: once the FRU loop has ended, fru_list is exactly the last fields, in line order
\* and with duplicates, of the lines whose last field matches the identifier grammar
\* as a whole; every token is non-empty and matches the grammar.
C1_FruExtraction ==
    pc = "fetch" =>
        /\ IsFruSequenceOf(fru_list, hw_inventory)
        /\ \A k \in 1..Len(fru_list) : fru_list[k] # <<>> /\ IsFruToken(fru_list[k])

\* a finished extraction that kept a token and skipped a non-blank line
C1_Witness ==
    /\ pc = "fetch"
    /\ Len(fru_list) >= 1
    /\ \E b \in LineStarts(hw_inventory) :
          LastField(hw_inventory, b) # <<>> /\ ~IsFruToken(LastField(hw_inventory, b))

Solid(c) == c \notin Whitespace
Positions(text, c) == {i \in 1..Len(text) : text[i] = c}

\* text[s..e] is a well-formed sw-eol-table component whose content lies between the
\* quotes at q1 and q2: the literals in order with only whitespace between them, no
\* closing brace before "htmlContent" and no quote inside the content
IsOccurrence(text, s, e, q1, q2) ==
    /\ s < q1 /\ q1 < q2 /\ q2 < e
    /\ text[s] = "{" /\ text[q1] = "'" /\ text[q2] = "'" /\ text[e] = "}"
    /\ \A i \in (q1 + 1)..(q2 - 1) : text[i] # "'"
    /\ SelectSeq(SubSeq(text, q2 + 1, e), Solid) = CloseLits
    /\ \E b \in Positions(text, "{"), h \in Positions(text, "\"htmlContent\"") :
          /\ s < b /\ b < h /\ h < q1
          /\ SelectSeq(SubSeq(text, s, b), Solid) = HeadLits
          /\ \A i \in (b + 1)..(h - 1) : text[i] # "}"
          /\ SelectSeq(SubSeq(text, h, q1), Solid) = KeyLits

\* a well-formed component starts at s
StartsOccurrence(text, s) ==
    \E q1 \in Positions(text, "'"), q2 \in Positions(text, "'"), e \in Positions(text, "}") :
        IsOccurrence(text, s, e, q1, q2)

BeforeMarkup(piece) ==
    SubSeq(piece, 1, Min(Positions(piece, "<") \cup {Len(piece) + 1}) - 1)

\* C9: every entry of the identifier list is the text before the first '<' of its
\* comma-separated piece, stripped afterwards, so that no entry holds '<' or starts or
\* ends with whitespace.
C9_EntriesCutThenStripped ==
    pc = "m_tokens" =>
        LET raw == Split(tables_eol.items[fi + 1].properties.htmlContent, ",")
        IN /\ Len(eol_components_formatted) = Len(raw)
           /\ \A k \in 1..Len(raw) :
                 LET entry == eol_components_formatted[k]
                 IN /\ entry = Strip(BeforeMarkup(raw[k]))
                    /\ Positions(entry, "<") = {}
                    /\ entry # <<>> => Solid(entry[1]) /\ Solid(entry[Len(entry)])

----------------------------------------------------------------------------
(* Properties of a run of analyse_inventory_internal. *)

Finished == pc \in {"returned", "raised"}
FetchFailed == \E k \in 1..Len(ran) : ran[k] \in FetchFailures
FetchSucceeded == In("fetch_ok", ran)
IsErrorResult(r) == r.kind = "TextContent" /\ "error" \in DOMAIN r.json
IsMatchReport(r) == r.kind = "TextContent" /\ "eol_list" \in DOMAIN r.json

\* C4: a failed download ends the run at once with an error result that carries the
\* cause and the whole FRU token sequence of the inventory and holds no count map;
\* neither the fragment extraction nor the matching has run.
C4_RetrievalFailure ==
    FetchFailed =>
        /\ pc = "returned"
        /\ IsErrorResult(result)
        /\ result.json.error = ran[Len(ran)]
        /\ IsFruSequenceOf(result.json.fru_list, hw_inventory)
        /\ ~IsMatchReport(result)
        /\ ran = <<"fru", result.json.error>>
        /\ tables_eol = NoTables

\* an error result that carries a token
C4_Witness ==
    /\ FetchFailed
    /\ pc = "returned"
    /\ Len(result.json.fru_list) = 2

\* C5: a run whose page was downloaded and holds no fragment returns a structured
\* result of the kind of the other outcomes that is neither a match report nor a
\* retrieval error.
C5_NoFragmentsResult ==
    (Finished /\ FetchSucceeded /\ extract_sw_eol_tables(eol_page_content) = <<>>) =>
        /\ pc = "returned"
        /\ result.kind = "TextContent"
        /\ ~IsMatchReport(result)
        /\ ~IsErrorResult(result)

\* C6: no run ends in an exception that nothing catches.
C6_NoUncaughtException == pc # "raised"

\* the sum of the counts of a count map
RECURSIVE SumOver(_, _)
SumOver(cnt, keys) ==
    IF keys = {} THEN 0
    ELSE LET k == CHOOSE x \in keys : TRUE IN cnt[k] + SumOver(cnt, keys \ {k})

----------------------------------------------------------------------------
(* Properties of the matcher. *)

Tokens == {fru_list[k] : k \in 1..Len(fru_list)}
Count(d, tok) == IF tok \in DOMAIN d.cnt THEN d.cnt[tok] ELSE 0
Occurrences(tok) == Cardinality({k \in 1..Len(fru_list) : fru_list[k] = tok})

\* fragment f's identifier list has tok as an entry
Lists(f, tok) ==
    LET ids == IdentifierList(tables_eol.items[f].properties.htmlContent)
    IN \E j \in 1..Len(ids) : ids[j] = tok

FragmentsListing(tok) == Cardinality({f \in 1..Len(tables_eol.items) : Lists(f, tok)})

Matching == pc \in {"m_for", "m_tokens"}
Matched == pc = "returned" /\ result = [kind |-> "int", value |-> 0]

\* the (fragment, token instance) pairs whose loop iteration has ended
Processed ==
    {<<f, k>> : f \in 1..fi, k \in 1..Len(fru_list)}
        \cup (IF pc = "m_tokens" THEN {<<fi + 1, k>> : k \in 1..ti} ELSE {})

Hits(tok) == {p \in Processed : fru_list[p[2]] = tok /\ Lists(p[1], tok)}

\* C2, as stated: at the end of the matching the count of a token is the number of
\* fragments whose identifier list holds it, however often the token occurs in the
\* FRU sequence.
C2_CountIsFragments ==
    Matched => \A tok \in Tokens : Count(eol_list, tok) = FragmentsListing(tok)

\* C2, amended: at the end of the matching the count of a token is the number of
\* fragments whose identifier list holds it times the number of its occurrences in
\* the FRU sequence.
C2_CountIsFragmentsTimesOccurrences ==
    Matched =>
        \A tok \in Tokens : Count(eol_list, tok) = FragmentsListing(tok) * Occurrences(tok)

\* a token that occurs twice and is listed by two fragments
C2_Witness ==
    /\ Matched
    /\ \E tok \in Tokens :
          /\ Occurrences(tok) = 2
          /\ FragmentsListing(tok) = 2
          /\ Count(eol_list, tok) = 4

\* one iteration of the token loop adds one to the count of its token when the token
\* is an entry of the current identifier list, and changes no other count
PairStep ==
    (pc = "m_tokens" /\ ti' = ti + 1) =>
        LET tok == fru_list[ti + 1]
            hit == \E j \in 1..Len(eol_components_formatted) :
                       eol_components_formatted[j] = tok
        IN /\ \A t \in Tokens :
                 Count(eol_list', t) = Count(eol_list, t) + (IF t = tok /\ hit THEN 1 ELSE 0)
           /\ DOMAIN eol_list'.cnt \subseteq Tokens

\* the count of a token is the number of ended iterations whose token it is and whose
\* fragment lists it; at the end every pair has had its iteration
PairsCounted ==
    /\ (Matching \/ Matched) => \A tok \in Tokens : Count(eol_list, tok) = Cardinality(Hits(tok))
    /\ Matched => Processed = (1..Len(tables_eol.items)) \X (1..Len(fru_list))

\* C3: the matcher visits every fragment and, in it, every token instance; each such
\* pair adds exactly one to the token's count when the token is an entry of the
\* fragment's identifier list, however often the entry is repeated there, and nothing
\* otherwise.
C3_OnePerPair == [][PairStep]_vars /\ []PairsCounted

\* both instances of a token have been counted against a list that repeats the entry
C3_Witness ==
    /\ pc = "m_tokens"
    /\ \E tok \in Tokens :
          /\ Cardinality({j \in 1..Len(eol_components_formatted) :
                             eol_components_formatted[j] = tok}) = 2
          /\ Cardinality({k \in 1..ti : fru_list[k] = tok}) = 2
          /\ Count(eol_list, tok) = 2

----------------------------------------------------------------------------
(* Properties of two runs. *)

----------------------------------------------------------------------------
(* Properties of what counts as a match. *)

\* tok is part of a longer entry of some fragment's identifier list
InsideLongerEntry(tok) ==
    \E f \in 1..Len(tables_eol.items) :
        LET ids == IdentifierList(tables_eol.items[f].properties.htmlContent)
        IN \E j \in 1..Len(ids) : ids[j] # tok /\ OccursIn(tok, ids[j])

\* tok is in the page text and in no fragment's content
OutsideFragments(tok) ==
    /\ OccursIn(tok, eol_page_content)
    /\ \A f \in 1..Len(tables_eol.items) :
          ~OccursIn(tok, tables_eol.items[f].properties.htmlContent)

\* C12: a token is a key of the count map only if it equals, as a whole, an entry of
\* the identifier list of a fragment the matcher has been through; being part of a
\* longer entry, or standing in the page outside the fragments, counts for nothing.
C12_VerbatimOnly ==
    (Matching \/ Matched) =>
        \A tok \in Tokens :
            /\ tok \in DOMAIN eol_list.cnt =>
                  \E f \in 1..Len(tables_eol.items) :
                      /\ f <= fi + (IF pc = "m_tokens" THEN 1 ELSE 0)
                      /\ Lists(f, tok)
            /\ Count(eol_list, tok) <= Occurrences(tok) * FragmentsListing(tok)

\* the matching has ended with a key, without the token that is part of a longer
\* entry and without the token that stands outside the fragments
C12_Witness ==
    /\ Matched
    /\ DOMAIN eol_list.cnt # {}
    /\ \E tok \in Tokens : InsideLongerEntry(tok) /\ tok \notin DOMAIN eol_list.cnt
    /\ \E tok \in Tokens : OutsideFragments(tok) /\ tok \notin DOMAIN eol_list.cnt

----------------------------------------------------------------------------
(* Properties of the shape of the identifier list. *)

\* the k-th comma-separated piece of h, by the positions of its commas
Piece(h, k) ==
    LET commas == Positions(h, ",")
        from == IF k = 1 THEN 0 ELSE Nth(commas, k - 1)
        to == IF k = Cardinality(commas) + 1 THEN Len(h) + 1 ELSE Nth(commas, k)
    IN SubSeq(h, from + 1, to - 1)

\* C13: the identifier list of a fragment has one entry more than its htmlContent
\* has commas, the k-th entry coming from the k-th piece, empty ones included; the
\* empty entry is never a key of the count map, and the matching goes on to its end.
C13_ListShape ==
    /\ pc \in {"m_tokens", "returned"} =>
          LET h == tables_eol.items[1].properties.htmlContent
              ids == eol_components_formatted
          IN /\ Len(ids) = Cardinality(Positions(h, ",")) + 1
             /\ \A k \in 1..Len(ids) :
                   /\ ids[k] = FormatItem(Piece(h, k))
                   /\ Strip(Piece(h, k)) = <<>> => ids[k] = <<>>
    /\ <<>> \notin DOMAIN eol_list.cnt
    /\ pc # "raised"

\* the matching has ended with a token counted against a list whose first and last
\* entries are empty
C13_Witness ==
    /\ Matched
    /\ Len(eol_components_formatted) = 3
    /\ eol_components_formatted[1] = <<>>
    /\ eol_components_formatted[3] = <<>>
    /\ DOMAIN eol_list.cnt # {}

----------------------------------------------------------------------------
(* Properties of the order of the stages. *)

\* C14: a download is requested only once the FRU loop has gone through every line,
\* at most once in a run and exactly once in a run that has ended, for the URL of the
\* run and with a timeout; a failed download ends the run, and the extraction and
\* what follows it are reached only after a download that succeeded.
C14_FetchOnceInOrder ==
    /\ Len(requests) <= 1
    /\ requests # <<>> =>
          /\ ran # <<>> /\ ran[1] = "fru"
          /\ li = Len(lines)
          /\ requests[1].url = eol_url
          /\ "timeout" \in DOMAIN requests[1]
          /\ requests[1].timeout = FetchTimeout
    /\ Finished => Len(requests) = 1
    /\ FetchFailed => pc = "returned" /\ IsErrorResult(result)
    /\ (pc \in {"extract", "check", "for", "raised"} \/ tables_eol # NoTables) =>
          /\ Len(ran) >= 2 /\ ran[1] = "fru" /\ ran[2] = "fetch_ok"
          /\ ~FetchFailed

\* a run ended by its one failed download, with a token extracted before it
C14_Witness ==
    /\ pc = "returned"
    /\ FetchFailed
    /\ Len(requests) = 1
    /\ Len(fru_list) >= 1

----------------------------------------------------------------------------
(* Properties of parse_eol_table_html. *)

\* the first table of the document, its header labels and its body rows
Labels ==
    IF arguments.html_content[1].thead.present /\ arguments.html_content[1].thead.rows # <<>>
    THEN [k \in 1..Len(arguments.html_content[1].thead.rows[1]) |-> Strip(arguments.html_content[1].thead.rows[1][k])]
    ELSE <<>>
Body == IF arguments.html_content[1].tbody.present THEN arguments.html_content[1].tbody.rows ELSE <<>>

\* the number of cells of a row that stand under a header
Under(cells) == Min({Len(cells), Len(Labels)})

\* the value of a cell: its trimmed text, with the link's target and title when the
\* cell holds a link
ValueOf(td) ==
    IF td.link.tag = "a"
    THEN [text |-> Strip(td.text),
          url |-> IF "href" \in DOMAIN td.link.attrs THEN td.link.attrs["href"] ELSE <<>>,
          title |-> IF "title" \in DOMAIN td.link.attrs THEN td.link.attrs["title"] ELSE <<>>]
    ELSE [text |-> Strip(td.text)]

\* the output row maps the label of every column under a header to the value of
\* the row's cell in that column, and nothing else
Aligned(row, cells) ==
    /\ DOMAIN row.val = {Labels[i] : i \in 1..Under(cells)}
    /\ \A i \in 1..Under(cells) : row.val[Labels[i]] = ValueOf(cells[i])

\* C15: the rows returned for a document without a table, or whose first table has no
\* header section, are none; otherwise every body row with a cell under a header has
\* an output row that maps the label of each such column to the value of its cell,
\* and every output row is such a row.
C15_RowsAlignedWithHeaders ==
    (pc = "returned" /\ name = "parse_eol_table_html") =>
        IF arguments.html_content = <<>> THEN result.rows = <<>>
        ELSE /\ ~arguments.html_content[1].thead.present => result.rows = <<>>
             /\ \A b \in 1..Len(Body) :
                   Under(Body[b]) >= 1 =>
                       \E r \in 1..Len(result.rows) : Aligned(result.rows[r], Body[b])
             /\ \A r \in 1..Len(result.rows) :
                   \E b \in 1..Len(Body) : Aligned(result.rows[r], Body[b])

\* C16: the rows returned are, in body order, one for each body row that has a
\* populated cell, and none of them is an empty mapping.
C16_OnlyPopulatedRows ==
    (pc = "returned" /\ name = "parse_eol_table_html") =>
        /\ \A r \in 1..Len(result.rows) : DOMAIN result.rows[r].val # {}
        /\ arguments.html_content # <<>> =>
              LET kept == {b \in 1..Len(Body) :
                              \E i \in 1..Under(Body[b]) : Strip(Body[b][i].text) # <<>>}
              IN /\ Len(result.rows) = Cardinality(kept)
                 /\ \A r \in 1..Len(result.rows) :
                       DOMAIN result.rows[r].val =
                           {Labels[i] : i \in 1..Under(Body[Nth(kept, r)])}

----------------------------------------------------------------------------
(* Properties of get_show_chassis. *)

\* C17: when get_show_chassis has ended, no connection it opened is still open; the
\* analysis and its download start only after the command returned and the
\* connection was closed; and after a missing or unreadable devices.json, an unknown
\* router, a failed connection or a failed command there is no analysis but an error
\* result.
C17_ConnectionLifecycle ==
    LET AnalysisStarted == \E k \in 1..Len(ran) : ran[k] = "analyse"
        ChassisFailed ==
            \E k \in 1..Len(ran) :
                ran[k] \in {"no_devices_file", "devices_unreadable", "unknown_router",
                            "no_library", "dev_open_failed", "cli_failed"}
    IN
    /\ pc \in {"tool_returned", "raised"} => dev # "open"
    /\ (AnalysisStarted \/ requests # <<>>) =>
          /\ dev = "closed"
          /\ \E k \in 1..(Len(ran) - 2) :
                ran[k] = "cli" /\ ran[k + 1] = "dev_close" /\ ran[k + 2] = "analyse"
    /\ ChassisFailed =>
          /\ pc = "tool_returned"
          /\ IsErrorResult(result)
          /\ ~AnalysisStarted
          /\ requests = <<>>

----------------------------------------------------------------------------
(* Properties of create_bom. *)

\* the inventory item with the given id, if there is one
Known(item_id) == \E k \in 1..Len(SampleInventory.items) : SampleInventory.items[k].id = item_id
Available(item_id) ==
    LET k == CHOOSE k \in 1..Len(SampleInventory.items) : SampleInventory.items[k].id = item_id
    IN SampleInventory.items[k].quantity

\* what the call needs of its k-th component for all units
Needed(k) ==
    arguments.components[k].quantity_needed
        * (IF arguments.units_to_produce = <<>> THEN 1 ELSE arguments.units_to_produce[1])

\* C18: the result of create_bom has one entry per listed component, in the order of
\* the list; the shortage of a component is what is needed beyond what is available,
\* never less than 0, and all that is needed when the id is unknown; can_produce is
\* true exactly when every listed id is in the inventory with at least the quantity
\* needed for all units; and no tool call changes the inventory.
C18_CreateBom ==
    /\ SAMPLE_INVENTORY = SampleInventory
    /\ (pc = "tool_returned" /\ name = "create_bom") =>
          LET asked == arguments.components
              bom == result.json
          IN /\ Len(bom.components) = Len(asked)
             /\ \A k \in 1..Len(asked) :
                   LET entry == bom.components[k]
                       id == asked[k].item_id
                   IN /\ entry.item_id = id
                      /\ entry.total_quantity_needed = Needed(k)
                      /\ entry.shortage =
                            IF ~Known(id) THEN Needed(k)
                            ELSE IF Needed(k) > Available(id) THEN Needed(k) - Available(id)
                            ELSE 0
                      /\ entry.sufficient_stock = (Known(id) /\ Available(id) >= Needed(k))
             /\ bom.can_produce =
                   (\A k \in 1..Len(asked) :
                       Known(asked[k].item_id) /\ Available(asked[k].item_id) >= Needed(k))

\* a bill of two components, one needing exactly what is available and one short
C18_Witness ==
    /\ pc = "tool_returned"
    /\ name = "create_bom"
    /\ Len(arguments.components) = 2
    /\ ~result.json.can_produce
    /\ Known(arguments.components[1].item_id)
    /\ Needed(1) = Available(arguments.components[1].item_id)
    /\ result.json.components[1].sufficient_stock
    /\ result.json.components[2].shortage > 0

====
